---- MODULE Spec2Model ----
(***************************************************************************)
(* Model of src/src/scraper/scrape.py: the Sreality scraper.               *)
(*                                                                         *)
(* Representation.                                                         *)
(*   - A Python string is a sequence of one-character strings, so that     *)
(*     startswith/endswith/regex search/str() are computed, not assumed.   *)
(*     The character U+00B2 (superscript two) is written "^2".             *)
(*   - A Python value is a record [t, n, s, e]: t is the type tag, n the   *)
(*     integer (or truth value 0/1), s the string (for a dict without a    *)
(*     "value" key: its repr), e the elements of a list (for a dict with   *)
(*     a "value" key: the one-element sequence holding that value).        *)
(*   - dict.get(key) on API data is an option: <<>> when the key is        *)
(*     absent, <<v>> when present.                                         *)
(*   - Attribute labels and column names are compared by equality only     *)
(*     and stay TLA+ strings; the Czech labels are written without         *)
(*     diacritics.                                                         *)
(***************************************************************************)
EXTENDS Integers, Sequences, FiniteSets, TLC

\* ------------------------------------------------------------ bounds
MaxPagesBound == 3
MaxItems == 2
MaxCands == 2
MaxMergeRuns == 2
MaxFileRows == 2

\* ------------------------------------------------------------ Python values
PyNone == [t |-> "none", n |-> 0, s |-> <<>>, e |-> <<>>]
PyInt(k) == [t |-> "int", n |-> k, s |-> <<>>, e |-> <<>>]
PyBool(b) == [t |-> "bool", n |-> IF b THEN 1 ELSE 0, s |-> <<>>, e |-> <<>>]
PyStr(cs) == [t |-> "str", n |-> 0, s |-> cs, e |-> <<>>]
PyList(xs) == [t |-> "list", n |-> 0, s |-> <<>>, e |-> xs]
PyDictWithValue(v) == [t |-> "dict", n |-> 1, s |-> <<>>, e |-> <<v>>]
PyDictNoValue(repr) == [t |-> "dict", n |-> 0, s |-> repr, e |-> <<>>]

\* Python truthiness: None, 0, False, "" and [] are falsy; {} is falsy too.
Truthy(v) ==
    CASE v.t = "none" -> FALSE
      [] v.t = "int" -> v.n # 0
      [] v.t = "bool" -> v.n # 0
      [] v.t = "str" -> v.s # <<>>
      [] v.t = "list" -> v.e # <<>>
      [] OTHER -> v.n # 0 \/ v.s # <<"{", "}">>

\* dict.get(key, default) on an optional field
Get(opt, default) == IF opt = <<>> THEN default ELSE opt[1]

DigitChar(d) == <<"0", "1", "2", "3", "4", "5", "6", "7", "8", "9">>[d + 1]

RECURSIVE NatToStr(_)
NatToStr(k) == IF k < 10 THEN <<DigitChar(k)>>
               ELSE NatToStr(k \div 10) \o <<DigitChar(k % 10)>>

IntToStr(k) == IF k < 0 THEN <<"-">> \o NatToStr(-k) ELSE NatToStr(k)

\* str(v) for the value shapes the API data takes here
Str(v) ==
    CASE v.t = "none" -> <<"N", "o", "n", "e">>
      [] v.t = "int" -> IntToStr(v.n)
      [] v.t = "bool" -> IF v.n = 1 THEN <<"T", "r", "u", "e">>
                         ELSE <<"F", "a", "l", "s", "e">>
      [] OTHER -> v.s

\* ------------------------------------------------------------ strings
Digits == {"0", "1", "2", "3", "4", "5", "6", "7", "8", "9"}
Spaces == {" ", "\t", "\n"}

StartsWith(cs, p) == Len(cs) >= Len(p) /\ SubSeq(cs, 1, Len(p)) = p
EndsWith(cs, p) == Len(cs) >= Len(p) /\ SubSeq(cs, Len(cs) - Len(p) + 1, Len(cs)) = p

LowerChar(c) ==
    CASE c = "A" -> "a" [] c = "B" -> "b" [] c = "C" -> "c" [] c = "I" -> "i"
      [] c = "K" -> "k" [] c = "P" -> "p" [] c = "S" -> "s" [] c = "T" -> "t"
      [] c = "Y" -> "y" [] OTHER -> c

Lower(cs) == [i \in 1..Len(cs) |-> LowerChar(cs[i])]

\* the sub-string p occurs in cs
Contains(cs, p) == \E i \in 1..(Len(cs) - Len(p) + 1) : SubSeq(cs, i, i + Len(p) - 1) = p

\* the end (exclusive) of the longest run of characters of class cls starting at i
RECURSIVE RunEnd(_, _, _)
RunEnd(cs, i, cls) == IF i <= Len(cs) /\ cs[i] \in cls THEN RunEnd(cs, i + 1, cls) ELSE i

CharAt(cs, i) == IF i >= 1 /\ i <= Len(cs) THEN cs[i] ELSE ""

\* str.strip()
RECURSIVE LStrip(_)
LStrip(cs) == IF cs # <<>> /\ cs[1] \in Spaces THEN LStrip(Tail(cs)) ELSE cs
RECURSIVE RStrip(_)
RStrip(cs) == IF cs # <<>> /\ cs[Len(cs)] \in Spaces THEN RStrip(SubSeq(cs, 1, Len(cs) - 1)) ELSE cs
Strip(cs) == RStrip(LStrip(cs))

\* the leftmost position of a set of match positions, 0 when there is none
Leftmost(S) == IF S = {} THEN 0 ELSE CHOOSE i \in S : \A j \in S : i <= j

\* ------------------------------------------------------------ text extractors
\* re.search(r'(\d\+(?:kk|1|2|3))', name, re.IGNORECASE)
RoomsMatchAt(cs, i) ==
    /\ CharAt(cs, i) \in Digits
    /\ CharAt(cs, i + 1) = "+"
    /\ \/ (LowerChar(CharAt(cs, i + 2)) = "k" /\ LowerChar(CharAt(cs, i + 3)) = "k")
       \/ CharAt(cs, i + 2) \in {"1", "2", "3"}

extract_rooms_from_name(name) ==
    LET cs == Str(name)
        i == Leftmost({k \in 1..Len(cs) : RoomsMatchAt(cs, k)})
    IN IF i # 0
       THEN IF LowerChar(CharAt(cs, i + 2)) = "k" /\ LowerChar(CharAt(cs, i + 3)) = "k"
            THEN SubSeq(cs, i, i + 3)
            ELSE SubSeq(cs, i, i + 2)
       ELSE IF Contains(Lower(cs), <<"a", "t", "y", "p", "i", "c", "k">>)
            THEN <<"a", "t", "y", "p", "i", "c", "k", "y">>
            ELSE <<>>

\* re.search(r'(\d+)\s*m[²2]', name)
SizeMatchAt(cs, i) ==
    /\ CharAt(cs, i) \in Digits
    /\ LET d == RunEnd(cs, i, Digits)
           m == RunEnd(cs, d, Spaces)
       IN CharAt(cs, m) = "m" /\ CharAt(cs, m + 1) \in {"^2", "2"}

extract_size_from_name(name) ==
    LET cs == Str(name)
        i == Leftmost({k \in 1..Len(cs) : SizeMatchAt(cs, k)})
    IN IF i # 0 THEN SubSeq(cs, i, RunEnd(cs, i, Digits) - 1) ELSE <<>>

Praha == <<"P", "r", "a", "h", "a">>

\* re.search(r'Praha\s+(\d+)', locality_text): the position of the digits, or 0
DistrictMatchAt(cs, i) ==
    /\ i + 4 <= Len(cs) /\ SubSeq(cs, i, i + 4) = Praha
    /\ LET w == RunEnd(cs, i + 5, Spaces)
       IN w > i + 5 /\ CharAt(cs, w) \in Digits

parse_district(locality_text) ==
    LET cs == Str(locality_text)
        i == Leftmost({k \in 1..Len(cs) : DistrictMatchAt(cs, k)})
    IN IF i # 0
       THEN LET w == RunEnd(cs, i + 5, Spaces)
            IN Praha \o <<" ">> \o SubSeq(cs, w, RunEnd(cs, w, Digits) - 1)
       ELSE <<>>

\* re.search(r'Praha\s+\d+\s*-\s*(.+)', locality_text): "." matches no newline
NeighborhoodStart(cs, i) ==
    LET w == RunEnd(cs, i + 5, Spaces)
        d == RunEnd(cs, w, Digits)
        h == RunEnd(cs, d, Spaces)
    IN h + 1

\* \s* before (.+) is greedy but gives characters back when (.+) would be empty
NeighborhoodMatchAt(cs, i) ==
    /\ DistrictMatchAt(cs, i)
    /\ LET w == RunEnd(cs, i + 5, Spaces)
           d == RunEnd(cs, w, Digits)
           h == RunEnd(cs, d, Spaces)
       IN /\ CharAt(cs, h) = "-"
          /\ \E k \in (h + 1)..Len(cs) :
                /\ cs[k] # "\n"
                /\ \A j \in (h + 1)..(k - 1) : cs[j] \in Spaces

\* the end (exclusive) of the line holding position i
RECURSIVE LineEnd(_, _)
LineEnd(cs, i) == IF i <= Len(cs) /\ cs[i] # "\n" THEN LineEnd(cs, i + 1) ELSE i

\* group(1).strip(): when only white space follows the hyphen, (.+) captures
\* white space alone and strip() leaves the empty string
parse_neighborhood(locality_text) ==
    LET cs == Str(locality_text)
        i == Leftmost({k \in 1..Len(cs) : NeighborhoodMatchAt(cs, k)})
    IN IF i # 0
       THEN LET sp == RunEnd(cs, NeighborhoodStart(cs, i), Spaces)
            IN IF sp <= Len(cs) THEN Strip(SubSeq(cs, sp, LineEnd(cs, sp) - 1)) ELSE <<>>
       ELSE <<>>

\* ------------------------------------------------------------ configuration
\* ATTRIBUTE_MAP, in insertion order
AttributeCols ==
    <<"size_m2", "floor", "building_type", "condition", "furnished", "elevator",
      "balcony", "terrace", "energy_rating", "ownership", "parking", "cellar",
      "loggia", "heating", "apartment_type", "note_about_price">>

AttributeColSet == {AttributeCols[k] : k \in 1..Len(AttributeCols)}

ATTRIBUTE_MAP ==
    [size_m2 |-> <<"Uzitna ploch", "Uzitna plocha", "Celkova plocha", "Plocha", "Obytna plocha">>,
     floor |-> <<"Podlazi">>,
     building_type |-> <<"Stavba", "Typ budovy">>,
     condition |-> <<"Stav objektu", "Stav">>,
     furnished |-> <<"Vybaveni", "Vybaveno">>,
     elevator |-> <<"Vytah">>,
     balcony |-> <<"Balkon (o-acute)", "Balkon">>,
     terrace |-> <<"Terasa">>,
     energy_rating |-> <<"Energeticka narocnost budovy", "PENB">>,
     ownership |-> <<"Vlastnictvi">>,
     parking |-> <<"Parkovani">>,
     cellar |-> <<"Sklep">>,
     loggia |-> <<"Lodzie", "Lodzia">>,
     heating |-> <<"Topeni">>,
     apartment_type |-> <<"Typ bytu">>,
     note_about_price |-> <<"Poznamka k cene">>]

CSV_COLUMNS ==
    <<"scrape_date", "hash_id", "name", "locality", "district", "neighborhood",
      "price_czk", "size_m2", "rooms", "floor", "building_type", "condition",
      "furnished", "elevator", "balcony", "terrace", "energy_rating",
      "ownership", "parking", "cellar", "loggia", "heating", "apartment_type",
      "note_about_price">>

ColumnSet == {CSV_COLUMNS[k] : k \in 1..Len(CSV_COLUMNS)}

\* ------------------------------------------------------------ attribute normalizer
\* ", ".join(parts)
RECURSIVE Join(_)
Join(parts) ==
    IF parts = <<>> THEN <<>>
    ELSE IF Len(parts) = 1 THEN parts[1]
    ELSE parts[1] \o <<",", " ">> \o Join(Tail(parts))

\* v.get("value", v) if isinstance(v, dict) else v
ElementValue(v) == IF v.t = "dict" THEN (IF v.n = 1 THEN v.e[1] ELSE v) ELSE v

\* lines 104-109: the string returned for a matched item's value
NormalizeValue(value) ==
    IF value.t = "list"
    THEN Join([k \in 1..Len(value.e) |-> Str(ElementValue(value.e[k]))])
    ELSE IF value.t # "none" THEN Str(value) ELSE <<>>

\* the first item at or after position j whose label equals name, 0 when none
RECURSIVE FirstItemNamed(_, _, _)
FirstItemNamed(items, name, j) ==
    IF j > Len(items) THEN 0
    ELSE IF items[j].name = <<name>> THEN j
    ELSE FirstItemNamed(items, name, j + 1)

\* lines 101-102 with the loops exchanged: items first, candidates second
RECURSIVE extract_attribute_ItemsFirst(_, _)
extract_attribute_ItemsFirst(items, possible_names) ==
    IF items = <<>> THEN <<>>
    ELSE IF \E k \in 1..Len(possible_names) : Head(items).name = <<possible_names[k]>>
         THEN NormalizeValue(Get(Head(items).value, PyNone))
         ELSE extract_attribute_ItemsFirst(Tail(items), possible_names)

RECURSIVE extract_attribute(_, _)
extract_attribute(items, possible_names) ==
    IF possible_names = <<>> THEN <<>>
    ELSE LET j == FirstItemNamed(items, Head(possible_names), 1)
         IN IF j # 0
            THEN NormalizeValue(Get(items[j].value, PyNone))
            ELSE extract_attribute(items, Tail(possible_names))

\* ------------------------------------------------------------ listing fetcher
NoDetail == [c \in {} |-> <<>>]

\* response: [ok |-> the request succeeded, items |-> data.get("items")]
get_listing_detail(response) ==
    IF response.ok
    THEN LET items == Get(response.items, <<>>)
         IN [c \in AttributeColSet |-> extract_attribute(items, ATTRIBUTE_MAP[c])]
    ELSE NoDetail

\* lines 83-91: the pair appended for one estate, or nothing
ListingOf(estate) ==
    LET hash_id == Get(estate.hash_id, PyNone)
    IN IF Truthy(hash_id)
       THEN << <<hash_id,
                 [name |-> Get(estate.name, PyStr(<<>>)),
                  locality |-> Get(estate.locality, PyStr(<<>>)),
                  price |-> Get(estate.price, PyNone),
                  price_czk |-> Get(Get(estate.price_czk, [value_raw |-> <<>>]).value_raw,
                                    PyNone)]>> >>
       ELSE <<>>

RECURSIVE ListingsOf(_)
ListingsOf(estates) ==
    IF estates = <<>> THEN <<>> ELSE ListingOf(Head(estates)) \o ListingsOf(Tail(estates))

\* response: [ok |-> the request succeeded, estates |-> data["_embedded"]["estates"]]
get_listing_ids(response) ==
    IF response.ok THEN ListingsOf(Get(response.estates, <<>>)) ELSE <<>>

\* ------------------------------------------------------------ canonical record
\* lines 234-256: the record of one listing whose detail was fetched
BuildListing(today, hash_id, basic_info, detail) ==
    LET name == basic_info.name
        locality == basic_info.locality
        api_size == IF "size_m2" \in DOMAIN detail THEN detail["size_m2"] ELSE <<>>
        listing ==
            [scrape_date |-> PyStr(today),
             hash_id |-> hash_id,
             name |-> name,
             locality |-> locality,
             district |-> PyStr(parse_district(locality)),
             neighborhood |-> PyStr(parse_neighborhood(locality)),
             price_czk |-> IF Truthy(basic_info.price) THEN basic_info.price
                           ELSE basic_info.price_czk,
             rooms |-> PyStr(extract_rooms_from_name(name)),
             size_m2 |-> IF api_size # <<>> THEN PyStr(api_size)
                         ELSE PyStr(extract_size_from_name(name))]
    IN listing @@ [c \in AttributeColSet \ DOMAIN listing |->
                      PyStr(IF c \in DOMAIN detail THEN detail[c] ELSE <<>>)]

\* ------------------------------------------------------------ tabular writer
\* csv.writer: None is written as the empty field, anything else as str(value)
CsvField(v) == IF v.t = "none" THEN <<>> ELSE Str(v)

\* DictWriter.writerow: a missing key is written as the empty field
CsvRow(listing) ==
    [c \in ColumnSet |-> IF c \in DOMAIN listing THEN CsvField(listing[c]) ELSE <<>>]

CsvRows(listings) == [k \in 1..Len(listings) |-> CsvRow(listings[k])]

\* the directory after save_to_csv(listings, filepath, append)
save_to_csv(fs, listings, filepath, append) ==
    LET old == IF append /\ filepath \in DOMAIN fs THEN fs[filepath] ELSE <<>>
    IN [f \in DOMAIN fs \cup {filepath} |->
           IF f = filepath THEN old \o CsvRows(listings) ELSE fs[f]]

\* DictReader row -> dict as DictWriter takes it: the fields are strings
RowAsListing(row) == [c \in DOMAIN row |-> PyStr(row[c])]

\* ------------------------------------------------------------ output directory
Prefix == <<"s", "r", "e", "a", "l", "i", "t", "y", "_">>
Suffix == <<".", "c", "s", "v">>
CombinedName == Prefix \o <<"c", "o", "m", "b", "i", "n", "e", "d">> \o Suffix

\* f.startswith("sreality_") and f.endswith(".csv")
IsDataFile(f) == StartsWith(f, Prefix) /\ EndsWith(f, Suffix)

\* the hash_id values of one file that load_existing_ids adds (lines 66-69)
FileIds(rows) == {rows[k]["hash_id"] : k \in {j \in 1..Len(rows) : rows[j]["hash_id"] # <<>>}}

load_existing_ids(exists, fs) ==
    IF ~exists THEN {}
    ELSE UNION {FileIds(fs[f]) : f \in {g \in DOMAIN fs : IsDataFile(g)}}

\* line 215 without str(): an int identifier is never a member of a set of strings
FilterNewNoStr(ids, existing) ==
    IF existing # {}
    THEN SelectSeq(ids, LAMBDA p : ~(p[1].t = "str" /\ p[1].s \in existing))
    ELSE ids

\* line 215 under the guard of line 213
FilterNew(ids, existing) ==
    IF existing # {}
    THEN SelectSeq(ids, LAMBDA p : Str(p[1]) \notin existing)
    ELSE ids

\* line 266: the files merge reads
IsSourceFile(f) == IsDataFile(f) /\ f # CombinedName

\* lines 280-283 keeping the last row read with an identifier instead of the first
MergeStepKeepLast(st, row) ==
    IF row["hash_id"] \notin st.seen_ids
    THEN [seen_ids |-> st.seen_ids \cup {row["hash_id"]}, all_rows |-> Append(st.all_rows, row)]
    ELSE [seen_ids |-> st.seen_ids,
          all_rows |-> [k \in 1..Len(st.all_rows) |->
                           IF st.all_rows[k]["hash_id"] = row["hash_id"] THEN row
                           ELSE st.all_rows[k]]]

\* lines 280-283 without the test of line 281
MergeStepNoDedup(st, row) ==
    [seen_ids |-> st.seen_ids \cup {row["hash_id"]}, all_rows |-> Append(st.all_rows, row)]

\* lines 280-283: one row of a source file
MergeStep(st, row) ==
    IF row["hash_id"] \notin st.seen_ids
    THEN [seen_ids |-> st.seen_ids \cup {row["hash_id"]}, all_rows |-> Append(st.all_rows, row)]
    ELSE st

RECURSIVE MergeFile(_, _)
MergeFile(st, rows) ==
    IF rows = <<>> THEN st ELSE MergeFile(MergeStep(st, Head(rows)), Tail(rows))

\* lines 272-285: csv_files in the order os.listdir gave them
RECURSIVE MergeFiles(_, _, _)
MergeFiles(st, csv_files, fs) ==
    IF csv_files = <<>> THEN st
    ELSE MergeFiles(MergeFile(st, fs[Head(csv_files)]), Tail(csv_files), fs)

MergedRows(csv_files, fs) ==
    MergeFiles([seen_ids |-> {}, all_rows |-> <<>>], csv_files, fs).all_rows

\* the orders in which os.listdir may give a set of names
ListingOrders(S) ==
    {o \in [1..Cardinality(S) -> S] : \A a, b \in 1..Cardinality(S) : o[a] = o[b] => a = b}

\* lines 227-258 without the skip of lines 230-232: a failed fetch leaves a partial record
FetchStepPartial(listings, today, entry, detail) ==
    Append(listings, BuildListing(today, entry[1], entry[2], detail))

\* lines 227-258: what one detail result does to the records awaiting the write
FetchStep(listings, today, entry, detail) ==
    IF DOMAIN detail = {} THEN listings
    ELSE Append(listings, BuildListing(today, entry[1], entry[2], detail))

\* line 199 testing for None instead of emptiness: the loop never breaks
StopsOnNone(listings) == FALSE

\* line 199: the page loop breaks
StopsOn(listings) == listings = <<>>

\* lines 208-210: where the run goes when the page loop is over
AfterEnumeration(ids) == IF ids = <<>> THEN "Done" ELSE "Filtering"

\* lines 220-222 without the early return
AfterFilterNoReturn(ids) == "FetchingDetails"

\* lines 220-222: where the run goes when the known identifiers are dropped
AfterFilter(ids) == IF ids = <<>> THEN "Done" ELSE "FetchingDetails"

\* lines 189-193
OutputPath(output_file, date_str) ==
    IF output_file = <<>>
    THEN Prefix \o <<"p", "r", "a", "g", "u", "e", "_", "r", "e", "n", "t", "_">> \o date_str \o Suffix
    ELSE output_file[1]

\* ------------------------------------------------------------ inputs: the remote API
Opt(v) == <<v>>
Absent == <<>>

Name1 == <<"2", "+", "k", "k", " ", "5", "0", " ", "m", "^2">>
Name2 == <<"A", "t", "y", "p", "i", "c", "k", "y">>
Name3 == <<"B", "y", "t", " ", "3", "+", "1", " ", "7", "0", "m", "2">>
Locality1 == <<"P", "r", "a", "h", "a", " ", "5", " ", "-", " ", "S", "m", "i", "c", "h", "o", "v">>
Locality2 == <<"B", "r", "n", "o">>
Locality3 == <<"u", "l", ".", " ", "X", ",", " ", "P", "r", "a", "h", "a", " ", "1", "0">>

\* the estates the enumeration call can return; the last one carries no hash_id
Estate1 == [hash_id |-> Opt(PyInt(1)), name |-> Opt(PyStr(Name1)), locality |-> Opt(PyStr(Locality1)),
            price |-> Opt(PyInt(9)), price_czk |-> Opt([value_raw |-> Opt(PyInt(9))])]
Estate2 == [hash_id |-> Opt(PyInt(2)), name |-> Opt(PyStr(Name2)), locality |-> Opt(PyStr(Locality2)),
            price |-> Absent, price_czk |-> Absent]
Estate3 == [hash_id |-> Opt(PyInt(12)), name |-> Opt(PyStr(Name3)), locality |-> Opt(PyStr(Locality3)),
            price |-> Opt(PyInt(0)), price_czk |-> Opt([value_raw |-> Opt(PyInt(7))])]
\* the first estate as a later page shows it: the same hash_id, other fields
Estate1b == [hash_id |-> Opt(PyInt(1)), name |-> Opt(PyStr(Name3)), locality |-> Opt(PyStr(Locality2)),
             price |-> Opt(PyInt(8)), price_czk |-> Absent]
Estate0 == [hash_id |-> Absent, name |-> Opt(PyStr(Name2)), locality |-> Absent,
            price |-> Absent, price_czk |-> Opt([value_raw |-> Absent])]

\* the answers to one enumeration request: a failure, an empty page, pages
PageResponses ==
    {[ok |-> FALSE, estates |-> Absent],
     [ok |-> TRUE, estates |-> Absent],
     [ok |-> TRUE, estates |-> Opt(<<Estate1>>)],
     [ok |-> TRUE, estates |-> Opt(<<Estate2, Estate1>>)],
     [ok |-> TRUE, estates |-> Opt(<<Estate0, Estate3>>)]}

Item(name, value) == [name |-> name, value |-> value]

ListValue == PyList(<<PyStr(<<"A", "n", "o">>), PyDictWithValue(PyInt(3)),
                      PyDictNoValue(<<"{", "}">>), PyBool(TRUE)>>)

\* data.get("items") of the detail call for a listing
DetailItems(hash_id) ==
    CASE hash_id = PyInt(1) ->
            Opt(<<Item(Opt("Uzitna plocha"), Opt(PyStr(<<"5", "5">>))),
                  Item(Opt("Vybaveni"), Opt(ListValue)),
                  Item(Opt("Vytah"), Opt(PyBool(TRUE)))>>)
      [] hash_id = PyInt(2) ->
            Opt(<<Item(Opt("Stav"), Opt(PyNone)),
                  Item(Absent, Opt(PyStr(<<"x">>))),
                  Item(Opt("Stav objektu"), Opt(PyStr(<<"D", "o", "b", "r", "y">>)))>>)
      [] OTHER -> Absent

\* the answers to one detail request: a failure, or the listing's data
DetailResponses(hash_id) ==
    {[ok |-> FALSE, items |-> Absent], [ok |-> TRUE, items |-> DetailItems(hash_id)]}

\* datetime.now() of a run, as strftime formats it
Today == <<"2", "0", "2", "4", "-", "0", "1", "-", "0", "2">>
Yesterday == <<"2", "0", "2", "4", "-", "0", "1", "-", "0", "1">>
DateStr == <<"2", "0", "2", "4", "0", "1", "0", "2", "_", "1", "2", "0", "0", "0", "0">>

\* ------------------------------------------------------------ inputs: the directory
FileA == Prefix \o <<"a">> \o Suffix
FileB == Prefix \o <<"b">> \o Suffix
Notes == <<"n", "o", "t", "e", "s">> \o Suffix

\* the row an earlier run wrote for an estate
RowFor(date, estate) ==
    LET entry == ListingOf(estate)[1]
        detail == get_listing_detail([ok |-> TRUE, items |-> DetailItems(entry[1])])
    IN CsvRow(BuildListing(date, entry[1], entry[2], detail))

EmptyDir == [f \in {} |-> <<>>]

\* directories a scrape run may start in
ScrapeDirs ==
    {[exists |-> FALSE, files |-> EmptyDir],
     [exists |-> TRUE, files |-> EmptyDir],
     [exists |-> TRUE, files |-> [f \in {FileA} |-> <<RowFor(Yesterday, Estate1)>>]],
     [exists |-> TRUE, files |-> [f \in {Notes, CombinedName} |->
                                     IF f = Notes THEN <<RowFor(Yesterday, Estate1)>>
                                     ELSE <<RowFor(Yesterday, Estate2)>>]]}

\* ------------------------------------------------------------ state
VARIABLES
    dir_exists,     \* os.path.exists(OUTPUT_DIR)
    files,          \* the files of OUTPUT_DIR: name -> rows
    pc,             \* where the scrape run is
    max_pages,      \* --pages
    output_file,    \* --output, <<>> when not given
    output_path,    \* the file the run writes
    page,           \* the loop variable of line 197
    stopped,        \* the loop of line 197 ended by break
    all_ids,        \* the (hash_id, basic_info) pairs collected, then filtered
    existing_ids,   \* load_existing_ids()
    idx,            \* the position of the loop of line 227 in all_ids
    all_listings,   \* the records awaiting the write
    page_log,       \* history: the enumeration requests made and their results
    candidates,     \* history: all_ids as enumeration left it
    detail_log,     \* history: the detail requests made and their outcomes
    phases,         \* history: the values pc has taken
    writes,         \* history: the number of save_to_csv calls of the run
    merge_runs,     \* the number of merge_data_files calls made
    merge_outcome,  \* how the last merge_data_files call ended
    merge_order,    \* history: csv_files of the last merge
    merge_counts,   \* history: the unique counts the merges reported
    items,          \* extract_attribute: its first argument
    possible_names, \* extract_attribute: its second argument
    attr_result,    \* extract_attribute: what the call returned
    attr_called,    \* extract_attribute: the call was made
    ids_loaded      \* load_existing_ids was called on its own

vars == <<dir_exists, files, pc, max_pages, output_file, output_path, page, stopped, all_ids,
          existing_ids, idx, all_listings, page_log, candidates, detail_log, phases, writes,
          merge_runs, merge_outcome, merge_order, merge_counts,
          items, possible_names, attr_result, attr_called, ids_loaded>>

runVars == <<pc, max_pages, output_file, output_path, page, stopped, all_ids,
             existing_ids, idx, all_listings, page_log, candidates, detail_log, phases, writes>>
mergeVars == <<merge_runs, merge_outcome, merge_order, merge_counts, ids_loaded>>
attrVars == <<items, possible_names, attr_result, attr_called>>

RunIdle ==
    /\ pc = "Idle" /\ max_pages = 0 /\ output_file = <<>> /\ output_path = <<>>
    /\ page = 0 /\ stopped = FALSE /\ all_ids = <<>> /\ existing_ids = {}
    /\ idx = 0 /\ all_listings = <<>> /\ page_log = <<>> /\ candidates = <<>>
    /\ detail_log = <<>> /\ phases = <<>> /\ writes = 0

MergeIdle ==
    /\ merge_runs = 0 /\ merge_outcome = "none" /\ merge_order = <<>> /\ merge_counts = <<>>
    /\ ids_loaded = FALSE

AttrIdle ==
    /\ items = <<>> /\ possible_names = <<>> /\ attr_result = <<>> /\ attr_called = FALSE

\* ------------------------------------------------------------ scrape_sreality
\* the process starts: the arguments are parsed, nothing has run yet
Init ==
    /\ \E d \in ScrapeDirs : dir_exists = d.exists /\ files = d.files
    /\ pc = "Init"
    /\ max_pages \in 0..MaxPagesBound
    /\ output_file \in {<<>>, <<FileA>>}
    /\ output_path = <<>>
    /\ page = 0 /\ stopped = FALSE /\ all_ids = <<>> /\ existing_ids = {}
    /\ idx = 0 /\ all_listings = <<>> /\ page_log = <<>> /\ candidates = <<>>
    /\ detail_log = <<>> /\ phases = <<"Init">> /\ writes = 0
    /\ MergeIdle /\ AttrIdle

GoTo(p) == pc' = p /\ phases' = Append(phases, p)

\* lines 187-195: the directory is made, the output path chosen
Start ==
    /\ pc = "Init"
    /\ dir_exists' = TRUE
    /\ output_path' = OutputPath(output_file, DateStr)
    /\ page' = 1
    /\ GoTo("Enumerating")
    /\ UNCHANGED <<files, max_pages, output_file, stopped, all_ids, existing_ids, idx,
                   all_listings, page_log, candidates, detail_log, writes>>
    /\ UNCHANGED <<mergeVars, attrVars>>

\* lines 197-204: one turn of the page loop
EnumeratePage ==
    /\ pc = "Enumerating" /\ ~stopped /\ page <= max_pages
    /\ \E response \in PageResponses :
          LET listings == get_listing_ids(response)
          IN /\ page_log' = Append(page_log, [page |-> page, ok |-> response.ok,
                                              listings |-> listings])
             /\ IF StopsOn(listings)
                THEN stopped' = TRUE /\ UNCHANGED <<all_ids, page>>
                ELSE all_ids' = all_ids \o listings /\ page' = page + 1 /\ UNCHANGED stopped
    /\ UNCHANGED <<dir_exists, files, pc, max_pages, output_file, output_path, existing_ids,
                   idx, all_listings, candidates, detail_log, phases, writes>>
    /\ UNCHANGED <<mergeVars, attrVars>>

\* lines 206-210: the loop is over
FinishEnumeration ==
    /\ pc = "Enumerating" /\ (stopped \/ page > max_pages)
    /\ candidates' = all_ids
    /\ GoTo(AfterEnumeration(all_ids))
    /\ UNCHANGED <<dir_exists, files, max_pages, output_file, output_path, page, stopped,
                   all_ids, existing_ids, idx, all_listings, page_log, detail_log, writes>>
    /\ UNCHANGED <<mergeVars, attrVars>>

\* lines 212-225: the known identifiers are dropped
Filter ==
    /\ pc = "Filtering"
    /\ existing_ids' = load_existing_ids(dir_exists, files)
    /\ all_ids' = FilterNew(all_ids, existing_ids')
    /\ idx' = 1
    /\ GoTo(AfterFilter(all_ids'))
    /\ UNCHANGED <<dir_exists, files, max_pages, output_file, output_path, page, stopped,
                   all_listings, page_log, candidates, detail_log, writes>>
    /\ UNCHANGED <<mergeVars, attrVars>>

\* lines 227-260 writing each record as it is built (save_to_csv in append mode)
FetchDetailAppending ==
    /\ pc = "FetchingDetails" /\ idx <= Len(all_ids)
    /\ \E response \in DetailResponses(all_ids[idx][1]) :
          LET detail == get_listing_detail(response)
              built == FetchStepPartial(<<>>, Today, all_ids[idx], detail)
          IN /\ detail_log' = Append(detail_log, [hash_id |-> all_ids[idx][1],
                                                  ok |-> response.ok])
             /\ all_listings' = IF response.ok THEN all_listings \o built ELSE all_listings
             /\ files' = IF response.ok THEN save_to_csv(files, built, output_path, TRUE)
                         ELSE files
    /\ idx' = idx + 1
    /\ UNCHANGED <<dir_exists, pc, max_pages, output_file, output_path, page, stopped,
                   all_ids, existing_ids, page_log, candidates, phases, writes,
                   merge_runs, merge_outcome, merge_order, merge_counts, ids_loaded,
                   items, possible_names, attr_result, attr_called>>

\* lines 227-260: one turn of the detail loop
FetchDetail ==
    /\ pc = "FetchingDetails" /\ idx <= Len(all_ids)
    /\ \E response \in DetailResponses(all_ids[idx][1]) :
          LET detail == get_listing_detail(response)
          IN /\ detail_log' = Append(detail_log, [hash_id |-> all_ids[idx][1],
                                                  ok |-> response.ok])
             /\ all_listings' = FetchStep(all_listings, Today, all_ids[idx], detail)
    /\ idx' = idx + 1
    /\ UNCHANGED <<dir_exists, files, pc, max_pages, output_file, output_path, page, stopped,
                   all_ids, existing_ids, page_log, candidates, phases, writes>>
    /\ UNCHANGED <<mergeVars, attrVars>>

\* the detail loop is over
FinishFetching ==
    /\ pc = "FetchingDetails" /\ idx > Len(all_ids)
    /\ GoTo("Writing")
    /\ UNCHANGED <<dir_exists, files, max_pages, output_file, output_path, page, stopped,
                   all_ids, existing_ids, idx, all_listings, page_log, candidates,
                   detail_log, writes>>
    /\ UNCHANGED <<mergeVars, attrVars>>

\* line 262
Write ==
    /\ pc = "Writing"
    /\ files' = save_to_csv(files, all_listings, output_path, FALSE)
    /\ writes' = writes + 1
    /\ GoTo("Done")
    /\ UNCHANGED <<dir_exists, max_pages, output_file, output_path, page, stopped, all_ids,
                   existing_ids, idx, all_listings, page_log, candidates, detail_log>>
    /\ UNCHANGED <<mergeVars, attrVars>>

\* the process is killed from outside while it runs
Kill ==
    /\ pc \in {"Enumerating", "Filtering", "FetchingDetails", "Writing"}
    /\ GoTo("Killed")
    /\ UNCHANGED <<dir_exists, files, max_pages, output_file, output_path, page, stopped,
                   all_ids, existing_ids, idx, all_listings, page_log, candidates,
                   detail_log, writes>>
    /\ UNCHANGED <<mergeVars, attrVars>>

Next ==
    \/ Start
    \/ EnumeratePage
    \/ FinishEnumeration
    \/ Filter
    \/ FetchDetail
    \/ FinishFetching
    \/ Write
    \/ Kill

Spec == Init /\ [][Next]_vars

\* ------------------------------------------------------------ merge_data_files
BoundedSeq(S, n) == UNION {[1..k -> S] : k \in 0..n}

\* what a data file written by an earlier run on the given date may hold
FileContents(date) ==
    {[k \in 1..Len(es) |-> RowFor(date, es[k])] :
        es \in BoundedSeq({Estate1, Estate1b, Estate2, Estate3}, MaxFileRows)}

\* a file of the directory: absent, or present with some content
MaybeFile(contents) == {<<>>} \cup {<<c>> : c \in contents}

DirOf(a, b, n, c) ==
    LET present == {x \in {<<FileA, a>>, <<FileB, b>>, <<Notes, n>>, <<CombinedName, c>>} :
                       x[2] # <<>>}
    IN [f \in {x[1] : x \in present} |-> (CHOOSE x \in present : x[1] = f)[2][1]]

\* the directory as earlier runs left it, when the merge starts
InitMerge ==
    /\ dir_exists \in BOOLEAN
    /\ IF dir_exists
       THEN \E a \in MaybeFile(FileContents(Yesterday)), b \in MaybeFile(FileContents(Today)),
               n \in MaybeFile({<<RowFor(Yesterday, Estate3)>>}),
               c \in MaybeFile({<<RowFor(Yesterday, Estate3)>>}) :
               files = DirOf(a, b, n, c)
       ELSE files = EmptyDir
    /\ RunIdle /\ MergeIdle /\ AttrIdle

\* lines 265-290: one call of merge_data_files
MergeRun ==
    /\ merge_runs < MaxMergeRuns
    /\ merge_runs' = merge_runs + 1
    /\ IF ~dir_exists
       THEN /\ merge_outcome' = "FileNotFoundError"
            /\ UNCHANGED <<files, merge_order, merge_counts>>
       ELSE \E csv_files \in ListingOrders({f \in DOMAIN files : IsSourceFile(f)}) :
               /\ merge_order' = csv_files
               /\ IF csv_files = <<>>
                  THEN /\ merge_outcome' = "no data files"
                       /\ UNCHANGED <<files, merge_counts>>
                  ELSE LET all_rows == MergedRows(csv_files, files)
                       IN /\ files' = save_to_csv(files,
                                         [k \in 1..Len(all_rows) |-> RowAsListing(all_rows[k])],
                                         CombinedName, FALSE)
                          /\ merge_counts' = Append(merge_counts, Len(all_rows))
                          /\ merge_outcome' = "merged"
    /\ UNCHANGED <<dir_exists, ids_loaded>>
    /\ UNCHANGED <<runVars, attrVars>>

\* lines 56-71: load_existing_ids called on the directory as it is
LoadExistingIds ==
    /\ ~ids_loaded
    /\ ids_loaded' = TRUE
    /\ existing_ids' = load_existing_ids(dir_exists, files)
    /\ UNCHANGED <<dir_exists, files, pc, max_pages, output_file, output_path, page, stopped,
                   all_ids, idx, all_listings, page_log, candidates, detail_log, phases, writes>>
    /\ UNCHANGED <<merge_runs, merge_outcome, merge_order, merge_counts, attrVars>>

NextMerge ==
    \/ MergeRun
    \/ LoadExistingIds

SpecMerge == InitMerge /\ [][NextMerge]_vars

\* ------------------------------------------------------------ extract_attribute
ItemNames == {Absent, Opt("Stav"), Opt("Stav objektu"), Opt("stav")}
ItemValues == {Absent, Opt(PyStr(<<"D", "o", "b", "r", "y">>)), Opt(PyInt(5)), Opt(ListValue)}
ItemSamples == {Item(n, v) : n \in ItemNames, v \in ItemValues}
LabelSamples == {"Stav objektu", "Stav"}

InitAttr ==
    /\ dir_exists = FALSE /\ files = EmptyDir
    /\ RunIdle /\ MergeIdle
    /\ items \in BoundedSeq(ItemSamples, MaxItems)
    /\ possible_names \in BoundedSeq(LabelSamples, MaxCands)
    /\ attr_result = <<>> /\ attr_called = FALSE

\* lines 100-110: one call of extract_attribute
ExtractAttribute ==
    /\ ~attr_called
    /\ attr_called' = TRUE
    /\ attr_result' = extract_attribute(items, possible_names)
    /\ UNCHANGED <<dir_exists, files, items, possible_names>>
    /\ UNCHANGED <<runVars, mergeVars>>

NextAttr == ExtractAttribute

SpecAttr == InitAttr /\ [][NextAttr]_vars

\* ------------------------------------------------------------ properties
\* the j-th smallest element of a set of positions
NthOf(S, j) == CHOOSE i \in S : Cardinality({m \in S : m <= i}) = j

\* the rows of the source files, in the order the last merge read them
RECURSIVE RowsInOrder(_, _)
RowsInOrder(order, fs) ==
    IF order = <<>> THEN <<>> ELSE fs[Head(order)] \o RowsInOrder(Tail(order), fs)

RowIds(rows) == {rows[k]["hash_id"] : k \in 1..Len(rows)}

FirstWith(rows, id) == NthOf({k \in 1..Len(rows) : rows[k]["hash_id"] = id}, 1)

\* C1: after a merge, the combined file holds, for every identifier of the
\* source files, exactly one row, the first one read with that identifier
\* (files in listing order, rows in file order), and nothing else; the rows
\* stand in the order of those first occurrences.
C1_MergeKeepsFirstRowPerId ==
    merge_outcome = "merged" =>
        LET read == RowsInOrder(merge_order, files)
            out == files[CombinedName]
        IN /\ {merge_order[k] : k \in 1..Len(merge_order)} = {f \in DOMAIN files : IsSourceFile(f)}
           /\ RowIds(out) = RowIds(read)
           /\ Len(out) = Cardinality(RowIds(read))
           /\ \A j \in 1..Len(out) : out[j] = read[FirstWith(read, out[j]["hash_id"])]
           /\ \A j, m \in 1..Len(out) :
                 j < m => FirstWith(read, out[j]["hash_id"]) < FirstWith(read, out[m]["hash_id"])
           /\ merge_counts[Len(merge_counts)] = Len(out)

\* C1 witness: files {1, 2} and {2, 12} merged to 3 rows, the row of 2 being
\* the one of the file read first.
C1_Witness ==
    /\ merge_outcome = "merged"
    /\ FileA \in DOMAIN files /\ FileB \in DOMAIN files
    /\ RowIds(files[FileA]) = {<<"1">>, <<"2">>}
    /\ RowIds(files[FileB]) = {<<"2">>, <<"1", "2">>}
    /\ merge_order = <<FileB, FileA>>
    /\ Len(files[CombinedName]) = 3
    /\ \E j \in 1..3 : files[CombinedName][j] = RowFor(Today, Estate2)

NoDuplicateIds(rows) ==
    \A j, m \in 1..Len(rows) : rows[j]["hash_id"] = rows[m]["hash_id"] => j = m

\* C2: every merge of the same source files reports the same unique count,
\* whether or not the combined file of an earlier merge is in the directory,
\* and the combined file holds no identifier twice.
C2_MergeIdempotentCount ==
    /\ \A j \in 1..Len(merge_counts) : merge_counts[j] = merge_counts[1]
    /\ merge_outcome = "merged" =>
          /\ NoDuplicateIds(files[CombinedName])
          /\ merge_counts[Len(merge_counts)] =
                Cardinality(UNION {RowIds(files[f]) : f \in {g \in DOMAIN files : IsSourceFile(g)}})

\* C2 witness: a second merge ran with the first one's output present, over
\* source files that share an identifier.
C2_Witness ==
    /\ Len(merge_counts) = 2
    /\ FileA \in DOMAIN files /\ FileB \in DOMAIN files
    /\ RowIds(files[FileA]) \cap RowIds(files[FileB]) # {}
    /\ merge_counts[2] = 2
    /\ Len(files[FileA]) + Len(files[FileB]) > 2

\* C3: the filtered list holds exactly the candidates whose identifier is not
\* in the existing-id set, in the candidates' order.
C3_FilterKeepsNewInOrder ==
    idx >= 1 =>
        LET kept == {k \in 1..Len(candidates) : Str(candidates[k][1]) \notin existing_ids}
        IN /\ Len(all_ids) = Cardinality(kept)
           /\ \A j \in 1..Len(all_ids) : all_ids[j] = candidates[NthOf(kept, j)]

\* C3 witness: a known identifier was dropped from between two new ones.
C3_Witness ==
    /\ idx >= 1
    /\ Len(candidates) = 3 /\ Len(all_ids) = 2
    /\ Str(candidates[2][1]) \in existing_ids
    /\ all_ids = <<candidates[1], candidates[3]>>

RecordsOf(id) == {j \in 1..Len(all_listings) : all_listings[j]["hash_id"] = id}
RequestsOf(id) == {k \in 1..Len(detail_log) : detail_log[k].hash_id = id}

\* C4 as stated: an identifier whose detail fetch failed has no record and is
\* requested once; an identifier whose detail fetch succeeded has one record.
C4_FailedIdentifierSkipped ==
    \A k \in 1..Len(detail_log) :
        IF detail_log[k].ok
        THEN Cardinality(RecordsOf(detail_log[k].hash_id)) = 1
        ELSE /\ RecordsOf(detail_log[k].hash_id) = {}
             /\ Cardinality(RequestsOf(detail_log[k].hash_id)) = 1

\* C4 amended: the entries of the filtered list are requested once each, in
\* list order; the records awaiting the write are those of the entries whose
\* request succeeded, one complete record each, in list order; a failed entry
\* adds nothing.
C4_EachEntryFetchedOnce ==
    LET okEntries == {k \in 1..Len(detail_log) : detail_log[k].ok}
    IN /\ Len(detail_log) = (IF idx = 0 THEN 0 ELSE idx - 1)
       /\ Len(detail_log) <= Len(all_ids)
       /\ \A k \in 1..Len(detail_log) : detail_log[k].hash_id = all_ids[k][1]
       /\ Len(all_listings) = Cardinality(okEntries)
       /\ \A j \in 1..Len(all_listings) :
             /\ all_listings[j]["hash_id"] = all_ids[NthOf(okEntries, j)][1]
             /\ all_listings[j]["name"] = all_ids[NthOf(okEntries, j)][2].name
             /\ DOMAIN all_listings[j] = ColumnSet

\* C4 witness: the loop is over, a failed entry stands between two that
\* succeeded.
C4_Witness ==
    /\ pc = "Writing"
    /\ Len(detail_log) = 3
    /\ detail_log[1].ok /\ ~detail_log[2].ok /\ detail_log[3].ok
    /\ Len(all_listings) = 2

\* ", ".join(parts), built from the left
RECURSIVE JoinedUpTo(_, _)
JoinedUpTo(parts, n) ==
    IF n = 0 THEN <<>>
    ELSE IF n = 1 THEN parts[1]
    ELSE JoinedUpTo(parts, n - 1) \o <<",", " ">> \o parts[n]

\* the string form of a list element: an object with a "value" sub-field
\* contributes that sub-field
ElementString(v) == IF v.t = "dict" /\ v.n = 1 THEN Str(v.e[1]) ELSE Str(v)

\* C5: extract_attribute returns the normalized value of the item found by
\* trying the candidates in order and, for each, the items in order, by exact
\* label equality; a list value is the ", "-join of its elements' strings;
\* with no match the result is the empty string.
C5_ExtractAttributeFirstMatch ==
    attr_called =>
        LET matches == {m \in (1..Len(possible_names)) \X (1..Len(items)) :
                           items[m[2]].name = <<possible_names[m[1]]>>}
        IN IF matches = {} THEN attr_result = <<>>
           ELSE LET sel == CHOOSE m \in matches : \A o \in matches :
                               m[1] < o[1] \/ (m[1] = o[1] /\ m[2] <= o[2])
                    value == IF items[sel[2]].value = <<>> THEN PyNone
                             ELSE items[sel[2]].value[1]
                IN attr_result =
                      (CASE value.t = "list" ->
                               JoinedUpTo([k \in 1..Len(value.e) |-> ElementString(value.e[k])],
                                          Len(value.e))
                         [] value.t = "none" -> <<>>
                         [] OTHER -> Str(value))

\* C5 witness: the second item matches the first candidate, the first item
\* the second candidate, and the value returned is a joined list.
C5_Witness ==
    /\ attr_called
    /\ possible_names = <<"Stav objektu", "Stav">>
    /\ Len(items) = 2
    /\ items[1] = Item(Opt("Stav"), Opt(PyInt(5)))
    /\ items[2] = Item(Opt("Stav objektu"), Opt(ListValue))
    /\ attr_result = <<"A", "n", "o", ",", " ", "3", ",", " ", "{", "}", ",", " ",
                       "T", "r", "u", "e">>

\* C6 as stated: every record built has exactly the columns as its fields and
\* no field holds null.
C6_RecordsHoldNoNull ==
    \A j \in 1..Len(all_listings) :
        /\ DOMAIN all_listings[j] = ColumnSet
        /\ \A c \in ColumnSet : all_listings[j][c].t # "none"

\* C7 as stated: with the directory missing, load_existing_ids gives the
\* empty set and merge_data_files ends without raising.
C7_MissingDirectoryIsNoError ==
    ~dir_exists =>
        /\ ids_loaded => existing_ids = {}
        /\ merge_runs > 0 => merge_outcome # "FileNotFoundError"

AllPhases == <<"Init", "Enumerating", "Filtering", "FetchingDetails", "Writing", "Done">>

\* C8 as stated: a run that reaches Done has passed through every state.
C8_DoneAfterEveryPhase == pc = "Done" => phases = AllPhases

\* C8 amended: the run takes the states in order and skips none, except that
\* it ends straight after Enumerating when no listing was collected and
\* straight after Filtering when no new listing is left; a run that ends with
\* new listings left has passed through FetchingDetails and Writing and has
\* written.
C8_PhaseOrder ==
    /\ pc = phases[Len(phases)]
    /\ \E n \in 1..Len(AllPhases) :
          LET head == SubSeq(AllPhases, 1, n)
          IN \/ phases = head
             \/ /\ phases = Append(head, "Killed")
                /\ head[n] \in {"Enumerating", "Filtering", "FetchingDetails", "Writing"}
             \/ phases = Append(head, "Done") /\ head[n] = "Enumerating" /\ candidates = <<>>
             \/ /\ phases = Append(head, "Done") /\ head[n] = "Filtering"
                /\ candidates # <<>> /\ all_ids = <<>>
    /\ phases = AllPhases => all_ids # <<>> /\ writes = 1

\* C8 witness: a run ended straight after Filtering.
C8_Witness ==
    /\ pc = "Done"
    /\ phases = <<"Init", "Enumerating", "Filtering", "Done">>
    /\ candidates # <<>> /\ writes = 0

\* the page loop ended and line 206 was reached
EnumerationOver == Len(phases) >= 3 /\ phases[3] \in {"Filtering", "Done"}

RECURSIVE ListingsLogged(_)
ListingsLogged(log) ==
    IF log = <<>> THEN <<>> ELSE Head(log).listings \o ListingsLogged(Tail(log))

\* C9: the pages are requested in the order 1, 2, ..., each once and none
\* beyond the limit; an empty result, from an empty page or a failed request,
\* is the last request; what the earlier pages gave is kept.
C9_PagesInOrderStopAtEmpty ==
    /\ \A k \in 1..Len(page_log) : page_log[k].page = k
    /\ Len(page_log) <= max_pages
    /\ \A k \in 1..Len(page_log) : page_log[k].listings = <<>> => k = Len(page_log)
    /\ stopped <=> (page_log # <<>> /\ page_log[Len(page_log)].listings = <<>>)
    /\ idx = 0 => all_ids = ListingsLogged(page_log)
    /\ EnumerationOver => candidates = ListingsLogged(page_log) /\ Len(all_ids) <= Len(candidates)

\* C9 witness: the second of three pages failed; the first page's listings
\* went on to the detail loop.
C9_Witness ==
    /\ max_pages = 3
    /\ Len(page_log) = 2 /\ ~page_log[2].ok /\ page_log[1].listings # <<>>
    /\ pc = "FetchingDetails"
    /\ candidates = page_log[1].listings

\* C10: the files of the directory change only in the step from Writing to
\* Done, which comes after a detail request for every entry of the filtered
\* list, and that step is taken at most once in a run.
C10_SingleWriteAtEnd ==
    [][(files' # files \/ writes' # writes) =>
          /\ pc = "Writing" /\ pc' = "Done"
          /\ Len(detail_log) = Len(all_ids)
          /\ writes = 0 /\ writes' = 1
          /\ files' = save_to_csv(files, all_listings, output_path, FALSE)]_vars

\* C10 witness: the run was killed in the detail loop with a record in
\* memory and nothing written.
C10_Witness ==
    /\ pc = "Killed"
    /\ phases[Len(phases) - 1] = "FetchingDetails"
    /\ all_listings # <<>> /\ idx <= Len(all_ids)
    /\ writes = 0

====
